---- MODULE Spec2Model ----
(***************************************************************************)
(* GLSLSourceProcessor: include expansion, preamble injection and the      *)
(* definition table, in the two design iterations of the repository:       *)
(*   iteration 1  src/glsl_source_processor.inl                            *)
(*   iteration 2  src/glsl_source_processor.h and                          *)
(*                src/include/glsl/glsl_source_processor.inl               *)
(* Texts are strings; a call of getShaderSource is one atomic action whose *)
(* result is computed by operators that follow process() line by line.     *)
(* The class declaration of iteration 1 is not among the sources: its      *)
(* members (definitionMap_, glslVersion_, sourceProvider_), which the      *)
(* member functions of both iterations use alike, are read from the        *)
(* declaration of iteration 2.                                             *)
(* The file providers of both iterations are modelled over files that      *)
(* carry a text, a last-write time and a permission to be opened; a        *)
(* request of a provider is one atomic action.  SplitDirectoryFileProvider *)
(* of iteration 1 takes its two roots as SplitDirectories of iteration 2   *)
(* sets them.                                                              *)
(***************************************************************************)
EXTENDS Integers, Sequences, FiniteSets

VARIABLES
    iteration,          \* which design iteration the processor is built from
    printSyntaxErrors,  \* template parameter PRINT_SYNTAX_ERRORS (iteration 1)
    sourceProvider_,    \* the provider's answers: <<kind, name>> -> text or None
    glslVersion_,       \* the version string given to the constructor
    definitionMap_,     \* the definition table, as its entries in iteration order
    lastTableOp,        \* the most recent define/undef/undefAll call
    returned,           \* what the most recent operation returned
    kept,               \* the result the caller holds from the call before
    impl_,              \* the file provider's reading strategy
    fs,                 \* the files on disk: path -> file
    cache_,             \* the provider's cache (cache_, sourceMap_)
    fetched             \* what the most recent provider request did

fileVars == <<impl_, fs, cache_, fetched>>

vars == <<iteration, printSyntaxErrors, sourceProvider_, glslVersion_,
          definitionMap_, lastTableOp, returned, kept, fileVars>>

(***************************************************************************)
(* Bounds of the model.                                                    *)
(***************************************************************************)
\* include lines over all files of an include graph drawn by InitExpand
MaxTotalIncludes == 3
\* macro names the caller chooses from in SpecTable
NumDefNames == 2

(***************************************************************************)
(* Values.                                                                 *)
(***************************************************************************)
\* std::optional<std::string>: std::nullopt and a present text
None == [has |-> FALSE, val |-> ""]
Some(text) == [has |-> TRUE, val |-> text]

\* enum class SourceType
Source == "Source"
Include == "Include"
SourceTypes == {Source, Include}

\* std::string::npos: larger than every index; kept apart from indices here
npos == -1

INCLUDE_PREFIX == "#include"
DEFINE_PREFIX == "#define "
DefaultVersion == "#version 450 core"

(***************************************************************************)
(* std::string / std::string_view operations, 0-based as in the code.      *)
(***************************************************************************)
CharAt(s, i) == SubSeq(s, i + 1, i + 1)

\* s.substr(pos, count), count = npos meaning "to the end"
Substr(s, pos, count) ==
    IF count = npos \/ pos + count > Len(s)
    THEN SubSeq(s, pos + 1, Len(s))
    ELSE SubSeq(s, pos + 1, pos + count)

\* s.starts_with(p)
StartsWith(s, p) == Len(s) >= Len(p) /\ SubSeq(s, 1, Len(p)) = p

\* s.find(c, from): the least index >= from holding c, or npos
Find(s, c, from) ==
    LET hits == {i \in from..(Len(s) - 1) : CharAt(s, i) = c}
    IN IF hits = {} THEN npos
       ELSE CHOOSE i \in hits : \A j \in hits : i <= j

\* s.rfind(c): the greatest index holding c, or npos
RFind(s, c) ==
    LET hits == {i \in 0..(Len(s) - 1) : CharAt(s, i) = c}
    IN IF hits = {} THEN npos
       ELSE CHOOSE i \in hits : \A j \in hits : i >= j

\* the pieces std::ranges::split_view yields for a non-consumed remainder:
\* one piece up to each delimiter and one last piece, empty or not
RECURSIVE SplitRest(_)
SplitRest(s) ==
    LET d == Find(s, "\n", 0)
    IN IF d = npos THEN <<s>>
       ELSE <<Substr(s, 0, d)>> \o SplitRest(Substr(s, d + 1, npos))

\* a variant that reads lines as std::getline does: no piece after a last newline
SplitLinesGetline(source) ==
    IF Len(source) = 0 THEN <<>>
    ELSE IF CharAt(source, Len(source) - 1) = "\n"
         THEN SubSeq(SplitRest(source), 1, Len(SplitRest(source)) - 1)
         ELSE SplitRest(source)

\* std::ranges::split_view(source, '\n'): no piece at all for an empty source
SplitLines(source) == IF Len(source) = 0 THEN <<>> ELSE SplitRest(source)

\* std::to_string(int)
RECURSIVE Digits(_)
Digits(n) ==
    LET d == SubSeq("0123456789", (n % 10) + 1, (n % 10) + 1)
    IN IF n < 10 THEN d ELSE Digits(n \div 10) \o d

to_string(v) == IF v < 0 THEN "-" \o Digits(0 - v) ELSE Digits(v)

(***************************************************************************)
(* The definition table: std::unordered_map<std::string, std::string>.     *)
(* It is kept as the sequence of its entries in iteration order; the       *)
(* standard leaves that order open, and an insertion may rehash, so an     *)
(* insertion yields any order of the new entry set.                        *)
(***************************************************************************)
Entry(name, value) == [name |-> name, value |-> value]

Keys(m) == {m[i].name : i \in 1..Len(m)}

\* every sequence that holds each entry of the set once
Orders(entries) ==
    {o \in [1..Cardinality(entries) -> entries] :
        \A i, j \in 1..Cardinality(entries) : i # j => o[i] # o[j]}

\* definitionMap_.insert_or_assign(name, value)
insert_or_assign(m, name, value) ==
    IF name \in Keys(m)
    THEN {[i \in 1..Len(m) |->
             IF m[i].name = name THEN Entry(name, value) ELSE m[i]]}
    ELSE Orders({m[i] : i \in 1..Len(m)} \cup {Entry(name, value)})

\* definitionMap_.emplace(name, value): an existing key keeps its entry
emplace(m, name, value) ==
    IF name \in Keys(m)
    THEN {m}
    ELSE Orders({m[i] : i \in 1..Len(m)} \cup {Entry(name, value)})

\* definitionMap_.erase(name): the other entries keep their order
erase(m, name) ==
    LET Keep(e) == e.name # name IN SelectSeq(m, Keep)

\* a variant that erases the first entry only
clearFirst(m) == IF Len(m) = 0 THEN m ELSE Tail(m)

\* definitionMap_.clear()
clear(m) == SubSeq(m, 1, 0)

(***************************************************************************)
(* Files and the providers that read them.  A path is the string that      *)
(* operator/ forms from a directory and a relative name.                   *)
(***************************************************************************)
\* std::filesystem::path::operator/ for a relative right-hand side
PathJoin(dir, name) == dir \o "/" \o name

\* SplitDirectories(root): srcRoot_(root / "src"), includeRoot_(root / "include")
Root == "glsl"
srcRoot_ == PathJoin(Root, "src")
includeRoot_ == PathJoin(Root, "include")

\* a variant with one directory for both kinds
getFilepathSingleRoot(type, name) == PathJoin(srcRoot_, name)

\* SplitDirectories::getFilepath(type, name)
getFilepath(type, name) ==
    IF type = Include THEN PathJoin(includeRoot_, name) ELSE PathJoin(srcRoot_, name)

\* a file on disk; one that exists may still refuse to be opened
MissingFile == [exists |-> FALSE, readable |-> FALSE, text |-> "", lastWrite |-> 0]
File(text, lastWrite) ==
    [exists |-> TRUE, readable |-> TRUE, text |-> text, lastWrite |-> lastWrite]

OnDisk(filepath) == IF filepath \in DOMAIN fs THEN fs[filepath] ELSE MissingFile

\* readString(filepath): std::nullopt when the file cannot be opened
readString(filepath) ==
    IF OnDisk(filepath).exists /\ OnDisk(filepath).readable
    THEN Some(OnDisk(filepath).text)
    ELSE None

\* what a request of a provider does: the value returned or a fault raised,
\* whether readString was called, and the cache it leaves
Answer(value, read, cache) ==
    [value |-> value, fault |-> FALSE, read |-> read, cache |-> cache]
Fault(read, cache) ==
    [value |-> None, fault |-> TRUE, read |-> read, cache |-> cache]

\* cache.emplace(key, text) for a key the cache does not hold
Stored(cache, key, text) ==
    [k \in DOMAIN cache \cup {key} |-> IF k = key THEN text ELSE cache[k]]

\* SillyFileProvider::getString(filepath), SimpleFileProvider::getSource
Silly_getString(filepath) == {Answer(readString(filepath), TRUE, cache_)}

\* a variant that looks at the file before it trusts its cache
Cached_getStringChecking(filepath) ==
    IF filepath \in DOMAIN cache_ /\ readString(filepath).has
    THEN {Answer(Some(cache_[filepath]), FALSE, cache_)}
    ELSE LET source == readString(filepath)
         IN IF ~source.has
            THEN {Answer(None, TRUE, cache_)}
            ELSE {Answer(source, TRUE, Stored(cache_, filepath, source.val))}

\* CachedFileProvider::getString(filepath) of iteration 2
Cached_getString(filepath) ==
    IF filepath \in DOMAIN cache_
    THEN {Answer(Some(cache_[filepath]), FALSE, cache_)}
    ELSE LET source == readString(filepath)
         IN IF ~source.has
            THEN {Answer(None, TRUE, cache_)}
            ELSE {Answer(source, TRUE, Stored(cache_, filepath, source.val))}

\* what reading through an empty std::optional<std::string> may give
IndeterminateTexts == {"", "?"}

\* CachedFileProvider::getSource(name, type) of iteration 1: it returns
\* make_optional(move(*sourceString)) also when sourceString is empty, which
\* is undefined: a present value of some text, or a fault
Cached_getSource(name) ==
    IF name \in DOMAIN cache_
    THEN {Answer(Some(cache_[name]), FALSE, cache_)}
    ELSE LET sourceString == readString(name)
         IN IF sourceString.has
            THEN {Answer(sourceString, TRUE, Stored(cache_, name, sourceString.val))}
            ELSE {Answer(Some(t), TRUE, cache_) : t \in IndeterminateTexts}
                     \cup {Fault(TRUE, cache_)}

\* a variant of the key without the last-write time
CacheKeyBySize(filepath) ==
    [filepath |-> filepath, lastWrite |-> 0, fileSize |-> Len(OnDisk(filepath).text)]

\* SmartCachedFileProvider::CacheKey(filepath), for a file that exists
CacheKey(filepath) ==
    [filepath |-> filepath, lastWrite |-> OnDisk(filepath).lastWrite,
     fileSize |-> Len(OnDisk(filepath).text)]

\* a variant that lets the error of a failed probe through
Smart_getStringUncaught(filepath) ==
    IF ~OnDisk(filepath).exists THEN {Fault(FALSE, cache_)}
    ELSE LET key == CacheKey(filepath)
             source == readString(filepath)
         IN IF key \in DOMAIN cache_ THEN {Answer(Some(cache_[key]), FALSE, cache_)}
            ELSE IF ~source.has THEN {Answer(None, TRUE, cache_)}
            ELSE {Answer(source, TRUE, Stored(cache_, key, source.val))}

\* SmartCachedFileProvider::getString(filepath): last_write_time and
\* file_size throw filesystem_error for a file that does not exist, which
\* the function catches
Smart_getString(filepath) ==
    IF ~OnDisk(filepath).exists THEN {Answer(None, FALSE, cache_)}
    ELSE LET key == CacheKey(filepath)
             source == readString(filepath)
         IN IF key \in DOMAIN cache_ THEN {Answer(Some(cache_[key]), FALSE, cache_)}
            ELSE IF ~source.has THEN {Answer(None, TRUE, cache_)}
            ELSE {Answer(source, TRUE, Stored(cache_, key, source.val))}

\* the file a request reads: iteration 2 asks its path policy, iteration 1
\* joins the roots in SplitDirectoryFileProvider and takes the name as the
\* path in SimpleFileProvider and CachedFileProvider
RequestPath(type, name) ==
    IF iteration = 2 \/ impl_ = "SplitDirectoryFileProvider"
    THEN getFilepath(type, name)
    ELSE name

\* FileSourceProvider::getSource(type, name) of iteration 2 and the
\* getSource(name, type) of the providers of iteration 1
FileSourceProvider_getSource(type, name) ==
    LET filepath == RequestPath(type, name)
    IN CASE impl_ = "SmartCachedFileProvider" -> Smart_getString(filepath)
         [] impl_ = "CachedFileProvider" /\ iteration = 2 -> Cached_getString(filepath)
         [] impl_ = "CachedFileProvider" /\ iteration = 1 -> Cached_getSource(filepath)
         [] OTHER -> Silly_getString(filepath)

(***************************************************************************)
(* The source provider, as the processor sees it: answers held in memory,  *)
(* or files read without a cache (a request then leaves no state behind).  *)
(***************************************************************************)
\* sourceProvider_.getSource(type, name)
getSource(type, name) ==
    IF impl_ # "memory" THEN readString(RequestPath(type, name))
    ELSE IF <<type, name>> \in DOMAIN sourceProvider_
    THEN sourceProvider_[<<type, name>>]
    ELSE None

(***************************************************************************)
(* What one call of getShaderSource threads through its recursion: the     *)
(* set alreadyIncludedFiles (passed by reference) and the call's record:   *)
(* messages handed to the logging collaborator, requests made of the       *)
(* provider, texts expanded and include directives reached, each in order. *)
(***************************************************************************)
EmptyRun ==
    [included |-> {}, log |-> <<>>, requests |-> <<>>,
     expanded |-> <<>>, directives |-> <<>>]

Message(what, arg) == [what |-> what, arg |-> arg]

\* LOGGER(...) under `if constexpr (PRINT_SYNTAX_ERRORS)` in iteration 1,
\* log_(...) in iteration 2
Logged(run, what, arg) ==
    [run EXCEPT !.log = @ \o <<Message(what, arg)>>]

Requested(run, type, name) ==
    [run EXCEPT !.requests = @ \o <<[type |-> type, name |-> name]>>]

Expanded(run, type, name) ==
    [run EXCEPT !.expanded = @ \o <<[type |-> type, name |-> name]>>]

\* outcome: "malformed", "skipped" (name already included) or "included"
Reached(run, line, name, outcome) ==
    [run EXCEPT !.directives =
        @ \o <<[line |-> line, name |-> name, outcome |-> outcome]>>]

\* the result of process / getShaderInclude with the state it leaves
Outcome(value, run) == [value |-> value, run |-> run]

(***************************************************************************)
(* process(): the preamble.                                                *)
(***************************************************************************)
RECURSIVE DefineLines(_)
DefineLines(m) ==
    IF Len(m) = 0 THEN ""
    ELSE DEFINE_PREFIX \o m[1].name \o " " \o m[1].value \o "\n"
         \o DefineLines(Tail(m))

\* a variant that emits the preamble whatever the kind
PreambleEverywhere(TYPE) ==
    glslVersion_ \o "\n" \o DefineLines(definitionMap_)

Preamble(TYPE) ==
    IF TYPE = Source
    THEN glslVersion_ \o "\n" \o DefineLines(definitionMap_)
    ELSE ""

(***************************************************************************)
(* process(): an include directive's quotes and name.                      *)
(***************************************************************************)
Parsed(ok, name, what) == [ok |-> ok, name |-> name, what |-> what]

\* iteration 1: the first quote and the next one after it
ParseIncludeFirstNext(line) ==
    LET start == Find(line, "\"", 0)
        end == Find(line, "\"", start + 1)
    IN IF start = npos
       THEN Parsed(FALSE, "", "#include declared but no value at")
       ELSE IF end = npos
       THEN Parsed(FALSE, "", "missing closing '\"' in include at")
       ELSE Parsed(TRUE, Substr(line, start + 1, end - start - 1), "")

\* a variant of iteration 2 that compares `end < start`
ParseIncludeFirstLastStrict(line) ==
    LET start == Find(line, "\"", 0)
        end == RFind(line, "\"")
    IN IF start = npos \/ (end # npos /\ end < start)
       THEN Parsed(FALSE, "", "Invalid include directive:")
       ELSE Parsed(TRUE, Substr(line, start + 1, end - start - 1), "")

\* iteration 2: the first quote and the last one
ParseIncludeFirstLast(line) ==
    LET start == Find(line, "\"", 0)
        end == RFind(line, "\"")
    IN IF start = npos \/ (end # npos /\ end <= start)
       THEN Parsed(FALSE, "", "Invalid include directive:")
       ELSE Parsed(TRUE, Substr(line, start + 1, end - start - 1), "")

ParseInclude(line) ==
    IF iteration = 1
    THEN ParseIncludeFirstNext(line)
    ELSE ParseIncludeFirstLast(line)

\* whether the message of a malformed directive reaches the collaborator
LogsSyntaxErrors == iteration = 2 \/ printSyntaxErrors

\* iteration 1 alone reports a failed include, at every level it unwinds
LogsFailedInclude == iteration = 1 /\ printSyntaxErrors

(***************************************************************************)
(* process() and getShaderInclude().                                       *)
(***************************************************************************)
RECURSIVE ProcessLines(_, _, _, _)
RECURSIVE process(_, _, _)
RECURSIVE getShaderInclude(_, _)

\* a variant that forgets the newline
AppendLineBare(result, line) == result \o line

\* `result += line; result += '\n';`
AppendLine(result, line) == result \o line \o "\n"

\* a variant that takes alreadyIncludedFiles by value: what the included
\* file adds to the set is lost to the including one
getShaderIncludeByValue(name, run) ==
    LET src == getSource(Include, name)
        asked == Requested(run, Include, name)
        out == process(Include, src.val, Expanded(asked, Include, name))
    IN IF src.has
       THEN Outcome(out.value, [out.run EXCEPT !.included = run.included])
       ELSE Outcome(src, asked)

\* a variant that forgets an include's name once its expansion is done
getShaderIncludeForgetting(name, run) ==
    LET src == getSource(Include, name)
        asked == Requested(run, Include, name)
        out == process(Include, src.val, Expanded(asked, Include, name))
    IN IF src.has
       THEN Outcome(out.value, [out.run EXCEPT !.included = @ \ {name}])
       ELSE Outcome(src, asked)

\* a variant that pastes an include's text as it is
getShaderIncludeVerbatim(name, run) ==
    LET src == getSource(Include, name)
        asked == Requested(run, Include, name)
    IN Outcome(src, IF src.has THEN Expanded(asked, Include, name) ELSE asked)

\* a variant that takes a missing include for an empty one
getShaderIncludeOrEmpty(name, run) ==
    LET src == getSource(Include, name)
        asked == Requested(run, Include, name)
    IN IF src.has
       THEN process(Include, src.val, Expanded(asked, Include, name))
       ELSE Outcome(Some(""), asked)

getShaderInclude(name, run) ==
    LET src == getSource(Include, name)
        asked == Requested(run, Include, name)
    IN IF src.has
       THEN process(Include, src.val, Expanded(asked, Include, name))
       ELSE Outcome(src, asked)

\* the loop over split_view(source, '\n'), from line i on
ProcessLines(lines, i, result, run) ==
    IF i > Len(lines)
    THEN Outcome(Some(result), run)
    ELSE
      LET line == lines[i] IN
      IF StartsWith(line, INCLUDE_PREFIX)
      THEN
        LET p == ParseInclude(line) IN
        IF ~p.ok
        THEN LET at == Reached(run, line, "", "malformed")
             IN Outcome(None, IF LogsSyntaxErrors
                              THEN Logged(at, p.what, line)
                              ELSE at)
        ELSE IF p.name \in run.included
        THEN ProcessLines(lines, i + 1, result,
                          Reached(run, line, p.name, "skipped"))
        ELSE
          LET at == Reached(run, line, p.name, "included")
              inserted == [at EXCEPT !.included = @ \cup {p.name}]
              include == getShaderInclude(p.name, inserted)
          IN IF ~include.value.has
             THEN Outcome(None, IF LogsFailedInclude
                                THEN Logged(include.run,
                                            "Failed to include file:", p.name)
                                ELSE include.run)
             ELSE ProcessLines(lines, i + 1, result \o include.value.val,
                               include.run)
      ELSE ProcessLines(lines, i + 1, AppendLine(result, line), run)

process(TYPE, source, run) ==
    ProcessLines(SplitLines(source), 1, Preamble(TYPE), run)

\* a variant that enters the top-level name into the set before expanding
getShaderSourceGuarded(name) ==
    LET src == getSource(Source, name)
        guarded == [EmptyRun EXCEPT !.included = {name}]
        asked == Requested(guarded, Source, name)
    IN IF src.has THEN process(Source, src.val, Expanded(asked, Source, name))
       ELSE Outcome(src, asked)

\* a variant whose set of included names outlives the call
getShaderSourceCarrying(name) ==
    LET src == getSource(Source, name)
        carried == [EmptyRun EXCEPT !.included = returned.run.included]
        asked == Requested(carried, Source, name)
    IN IF src.has THEN process(Source, src.val, Expanded(asked, Source, name))
       ELSE Outcome(src, asked)

\* getShaderSource(name), with a fresh alreadyIncludedFiles
getShaderSource(name) ==
    LET src == getSource(Source, name)
        asked == Requested(EmptyRun, Source, name)
    IN IF src.has
       THEN process(Source, src.val, Expanded(asked, Source, name))
       ELSE Outcome(src, asked)

(***************************************************************************)
(* Texts the provider may hold.                                            *)
(***************************************************************************)
Names == {"A", "B", "C"}

RECURSIVE Join(_)
Join(lines) ==
    IF Len(lines) = 0 THEN ""
    ELSE IF Len(lines) = 1 THEN lines[1]
    ELSE lines[1] \o "\n" \o Join(Tail(lines))

FirstLine(n) == "// begin " \o n
LastLine(n) == "// end " \o n
IncludeLine(n) == "#include \"" \o n \o "\""

\* a file of name n: its first line, one include line per name of incs, its last line
FileText(n, incs) ==
    Join(<<FirstLine(n)>> \o [i \in 1..Len(incs) |-> IncludeLine(incs[i])]
         \o <<LastLine(n)>>)

Absent == [present |-> FALSE, includes |-> <<>>]
Present(incs) == [present |-> TRUE, includes |-> incs]

\* a file absent, or present with at most `most` include lines
Files(most) ==
    {Absent} \cup UNION {{Present(s) : s \in [1..k -> Names]} : k \in 0..most}

\* include graphs over Names with at most `most` include lines in all
Graphs(most) ==
    UNION {UNION {
        {[n \in Names |-> CASE n = "A" -> a [] n = "B" -> b [] OTHER -> c] :
            c \in Files(most - Len(a.includes) - Len(b.includes))} :
        b \in Files(most - Len(a.includes))} :
        a \in Files(most)}

\* one root directory: a name resolves to the same file under both kinds
SingleRoot(g) ==
    [k \in SourceTypes \X Names |->
        IF g[k[2]].present THEN Some(FileText(k[2], g[k[2]].includes)) ELSE None]

\* two root directories: the source root holds the one file "A", which
\* includes "A" and "B" of the include root
MainText == Join(<<"// begin main", IncludeLine("A"), IncludeLine("B"), "// end main">>)

SplitRoot(g) ==
    [k \in SourceTypes \X Names |->
        IF k[1] = Source
        THEN IF k[2] = "A" THEN Some(MainText) ELSE None
        ELSE IF g[k[2]].present THEN Some(FileText(k[2], g[k[2]].includes)) ELSE None]

ExpandProviders ==
    {SingleRoot(g) : g \in Graphs(MaxTotalIncludes)}
    \cup (IF MaxTotalIncludes >= 2
          THEN {SplitRoot(g) : g \in Graphs(MaxTotalIncludes - 2)}
          ELSE {})

\* lines that begin with, or look like, an include directive of name n
DirectiveLines(n) ==
    { "#include " \o n \o ".glsl",
      "#include <" \o n \o ">",
      "#include \"" \o n,
      "#include \"" \o n \o "\" // \"x\"",
      "#include \"" \o n \o "\"\"",
      "#include\"" \o n \o "\"",
      "#include \"\"",
      "  #include \"" \o n \o "\"" }

\* such a line in the top-level file, or in a file the top-level file includes
DirectiveProviders ==
    {[k \in SourceTypes \X Names |->
        CASE k[2] = "A" -> Some(Join(<<FirstLine("A"), l, LastLine("A")>>))
          [] k[2] = "B" -> Some(FileText("B", <<>>))
          [] OTHER -> None] : l \in DirectiveLines("B")}
    \cup
    {[k \in SourceTypes \X Names |->
        CASE k[2] = "A" -> Some(FileText("A", <<"B">>))
          [] k[2] = "B" -> Some(Join(<<FirstLine("B"), l, LastLine("B")>>))
          [] OTHER -> Some(FileText("C", <<>>))] : l \in DirectiveLines("C")}

\* top-level texts without any include directive
PlainTexts ==
    { "void main(){}", "", "\n", "x\n", "a\n\nb", "  #include \"B\"\n//#include" }

PlainProviders ==
    {[k \in SourceTypes \X {"A"} |-> Some(t)] : t \in PlainTexts}

(***************************************************************************)
(* What the caller defines.                                                *)
(***************************************************************************)
DefNameList == <<"LIGHT_COUNT", "USE_FOG", "SHADOWS", "DEBUG">>
DefNames(n) == {DefNameList[i] : i \in 1..n}
DefineValues == {4, -12}
Versions == {DefaultVersion, "#version 330"}

\* the design iterations and, for iteration 1, PRINT_SYNTAX_ERRORS
Builds == {<<1, TRUE>>, <<1, FALSE>>, <<2, TRUE>>}

(***************************************************************************)
(* The state after construction.                                           *)
(***************************************************************************)
\* a table operation as called, with the number of entries it removed
TableOp(op, name, value, removed) ==
    [op |-> op, name |-> name, value |-> value, removed |-> removed]

NoTableOp == TableOp("none", "", 0, 0)
Void == [call |-> FALSE, name |-> "", value |-> None, run |-> EmptyRun]

\* no provider request made yet
NotFetched ==
    [call |-> FALSE, type |-> Source, name |-> "", filepath |-> "",
     read |-> FALSE, outcome |-> "none", text |-> ""]

\* a provider that answers from memory: no files, no strategy, no cache
InMemory ==
    /\ impl_ = "memory"
    /\ fs = <<>>
    /\ cache_ = <<>>
    /\ fetched = NotFetched

Constructed(providers, versions) ==
    /\ \E b \in Builds : iteration = b[1] /\ printSyntaxErrors = b[2]
    /\ sourceProvider_ \in providers
    /\ glslVersion_ \in versions
    /\ definitionMap_ = <<>>
    /\ lastTableOp = NoTableOp
    /\ returned = Void
    /\ kept = Void
    /\ InMemory

Init == Constructed(ExpandProviders \cup DirectiveProviders, {DefaultVersion})

InitTable == Constructed(PlainProviders, Versions)

(***************************************************************************)
(* The operations.                                                         *)
(***************************************************************************)
\* define(name, value)
Define(name, value) ==
    /\ definitionMap_' \in insert_or_assign(definitionMap_, name, to_string(value))
    /\ lastTableOp' = TableOp("define", name, value, 0)
    /\ returned' = Void
    /\ kept' = Void
    /\ UNCHANGED <<iteration, printSyntaxErrors, sourceProvider_, glslVersion_>>
    /\ UNCHANGED fileVars

\* define(name)
DefineFlag(name) ==
    /\ definitionMap_' \in emplace(definitionMap_, name, "")
    /\ lastTableOp' = TableOp("defineFlag", name, 0, 0)
    /\ returned' = Void
    /\ kept' = Void
    /\ UNCHANGED <<iteration, printSyntaxErrors, sourceProvider_, glslVersion_>>
    /\ UNCHANGED fileVars

\* undef(name)
Undef(name) ==
    /\ definitionMap_' = erase(definitionMap_, name)
    /\ lastTableOp' = TableOp("undef", name, 0, Len(definitionMap_) - Len(definitionMap_'))
    /\ returned' = Void
    /\ kept' = Void
    /\ UNCHANGED <<iteration, printSyntaxErrors, sourceProvider_, glslVersion_>>
    /\ UNCHANGED fileVars

\* undefAll()
UndefAll ==
    /\ definitionMap_' = clear(definitionMap_)
    /\ lastTableOp' = TableOp("undefAll", "", 0, Len(definitionMap_) - Len(definitionMap_'))
    /\ returned' = Void
    /\ kept' = Void
    /\ UNCHANGED <<iteration, printSyntaxErrors, sourceProvider_, glslVersion_>>
    /\ UNCHANGED fileVars

\* a variant that uses the table up
GetShaderSourceConsuming(name) ==
    /\ LET out == getShaderSource(name)
       IN returned' = [call |-> TRUE, name |-> name, value |-> out.value, run |-> out.run]
    /\ definitionMap_' = <<>>
    /\ kept' = Void
    /\ UNCHANGED <<iteration, printSyntaxErrors, sourceProvider_, glslVersion_,
                   lastTableOp>>
    /\ UNCHANGED fileVars

\* getShaderSource(name): a const member function
GetShaderSource(name) ==
    /\ LET out == getShaderSource(name)
       IN returned' = [call |-> TRUE, name |-> name, value |-> out.value, run |-> out.run]
    /\ kept' = Void
    /\ UNCHANGED <<iteration, printSyntaxErrors, sourceProvider_, glslVersion_,
                   definitionMap_, lastTableOp>>
    /\ UNCHANGED fileVars

\* getShaderSource(name) once more, by a caller that holds the result of the
\* call just made
GetShaderSourceAgain(name) ==
    /\ returned.call
    /\ LET out == getShaderSource(name)
       IN returned' = [call |-> TRUE, name |-> name, value |-> out.value, run |-> out.run]
    /\ kept' = returned
    /\ UNCHANGED <<iteration, printSyntaxErrors, sourceProvider_, glslVersion_,
                   definitionMap_, lastTableOp>>
    /\ UNCHANGED fileVars

\* include expansion, with one macro for the caller to define; the include
\* graphs are closed under renaming, so two top-level names reach every shape
Next ==
    \/ \E n \in DefNames(1), v \in {4} : Define(n, v)
    \/ \E n \in {"A", "B"} : GetShaderSource(n)

Spec == Init /\ [][Next]_vars

\* the definition table, over sources without include directives
NextTable ==
    \/ \E n \in DefNames(NumDefNames), v \in DefineValues : Define(n, v)
    \/ \E n \in DefNames(NumDefNames) : DefineFlag(n)
    \/ \E n \in DefNames(NumDefNames) : Undef(n)
    \/ UndefAll
    \/ \E n \in {"A", "B"} : GetShaderSource(n)

SpecTable == InitTable /\ [][NextTable]_vars

\* calls that follow one another, over include graphs and directive shapes
InitRepeat ==
    Constructed({SingleRoot(g) : g \in Graphs(MaxTotalIncludes - 1)}
                    \cup DirectiveProviders, {DefaultVersion})

NextRepeat ==
    \/ \E n \in DefNames(1), v \in {4} : Define(n, v)
    \/ \E n \in {"A", "B"} : GetShaderSource(n)
    \/ \E n \in {"A", "B"} : GetShaderSourceAgain(n)

SpecRepeat == InitRepeat /\ [][NextRepeat]_vars

(***************************************************************************)
(* The file providers on their own: requests, and what happens to the      *)
(* files between them.                                                     *)
(***************************************************************************)
\* last-write times a file may carry
MaxTime == 2
\* texts written to the file that changes
FileTexts == {"x", "y", "xy"}

\* the providers of the two iterations
FileBuilds ==
    { <<1, "SimpleFileProvider">>, <<1, "CachedFileProvider">>,
      <<1, "SplitDirectoryFileProvider">>, <<2, "SillyFileProvider">>,
      <<2, "CachedFileProvider">>, <<2, "SmartCachedFileProvider">> }

\* every path a request may form
AllPaths ==
    {"A", "B"} \cup {PathJoin(d, n) : d \in {srcRoot_, includeRoot_}, n \in {"A", "B"}}

\* a processor over a file provider, nothing requested yet
ConstructedOverFiles(builds, fileSystems) ==
    /\ \E b \in builds : iteration = b[1] /\ impl_ = b[2]
    /\ printSyntaxErrors = TRUE
    /\ sourceProvider_ = <<>>
    /\ glslVersion_ = DefaultVersion
    /\ definitionMap_ = <<>>
    /\ lastTableOp = NoTableOp
    /\ returned = Void
    /\ kept = Void
    /\ fs \in fileSystems
    /\ cache_ = <<>>
    /\ fetched = NotFetched

\* the provider's getSource(type, name)
RequestSource(type, name) ==
    /\ impl_ # "memory"
    /\ fetched.outcome # "fault"
    /\ \E a \in FileSourceProvider_getSource(type, name) :
          /\ fetched' = [call |-> TRUE, type |-> type, name |-> name,
                         filepath |-> RequestPath(type, name), read |-> a.read,
                         outcome |-> IF a.fault THEN "fault"
                                     ELSE IF a.value.has THEN "text" ELSE "absent",
                         text |-> a.value.val]
          /\ cache_' = a.cache
    /\ UNCHANGED <<iteration, printSyntaxErrors, sourceProvider_, glslVersion_,
                   definitionMap_, lastTableOp, returned, kept, impl_, fs>>

\* a file is created or overwritten; its last-write time is whatever the
\* writer and the clock make it
WriteFile(filepath, text, time) ==
    /\ fs' = [fs EXCEPT ![filepath] =
                [exists |-> TRUE, readable |-> IF @.exists THEN @.readable ELSE TRUE,
                 text |-> text, lastWrite |-> time]]
    /\ fetched' = NotFetched
    /\ UNCHANGED <<iteration, printSyntaxErrors, sourceProvider_, glslVersion_,
                   definitionMap_, lastTableOp, returned, kept, impl_, cache_>>

\* a file is removed
DeleteFile(filepath) ==
    /\ fs[filepath].exists
    /\ fs' = [fs EXCEPT ![filepath] = MissingFile]
    /\ fetched' = NotFetched
    /\ UNCHANGED <<iteration, printSyntaxErrors, sourceProvider_, glslVersion_,
                   definitionMap_, lastTableOp, returned, kept, impl_, cache_>>

\* a file's permissions change; its text and last-write time stay
SetReadable(filepath, flag) ==
    /\ fs[filepath].exists
    /\ fs[filepath].readable # flag
    /\ fs' = [fs EXCEPT ![filepath].readable = flag]
    /\ fetched' = NotFetched
    /\ UNCHANGED <<iteration, printSyntaxErrors, sourceProvider_, glslVersion_,
                   definitionMap_, lastTableOp, returned, kept, impl_, cache_>>

\* one file under glsl/src that stays as it is
StartFiles ==
    [q \in AllPaths |-> IF q = getFilepath(Source, "A") THEN File("s", 1) ELSE MissingFile]

InitCache == ConstructedOverFiles(FileBuilds, {StartFiles})

\* the file that changes is the one an include of A reads
NextCache ==
    \/ \E t \in SourceTypes, n \in {"A", "B"} : RequestSource(t, n)
    \/ \E text \in FileTexts, time \in 1..MaxTime :
          WriteFile(RequestPath(Include, "A"), text, time)
    \/ DeleteFile(RequestPath(Include, "A"))
    \/ \E flag \in BOOLEAN : SetReadable(RequestPath(Include, "A"), flag)

SpecCache == InitCache /\ [][NextCache]_vars

\* a file that names its own path in its first line and includes some names
FileAt(filepath, incs) ==
    File(Join(<<"// " \o filepath>> \o [i \in 1..Len(incs) |-> IncludeLine(incs[i])]), 1)

\* files of the same names under glsl/src and glsl/include
RootFileSystems ==
    {[q \in AllPaths |->
        CASE q = getFilepath(Source, "A") -> FileAt(q, srcA)
          [] q = getFilepath(Source, "B") -> IF srcB THEN FileAt(q, <<"A">>) ELSE MissingFile
          [] q = getFilepath(Include, "A") -> IF incA.has THEN FileAt(q, incA.val) ELSE MissingFile
          [] q = getFilepath(Include, "B") -> IF incB.has THEN FileAt(q, incB.val) ELSE MissingFile
          [] OTHER -> MissingFile] :
      srcA \in {<<"A">>, <<"B">>, <<"A", "B">>},
      srcB \in BOOLEAN,
      incA \in {[has |-> FALSE, val |-> <<>>], [has |-> TRUE, val |-> <<>>],
                [has |-> TRUE, val |-> <<"B">>]},
      incB \in {[has |-> FALSE, val |-> <<>>], [has |-> TRUE, val |-> <<>>],
                [has |-> TRUE, val |-> <<"A">>]}}

\* the processor over the providers that read from two roots without a cache
InitRoots ==
    ConstructedOverFiles({<<1, "SplitDirectoryFileProvider">>, <<2, "SillyFileProvider">>},
                         RootFileSystems)

NextRoots ==
    \/ \E n \in DefNames(1), v \in {4} : Define(n, v)
    \/ \E n \in {"A", "B"} : GetShaderSource(n)
    \/ \E t \in SourceTypes, n \in {"A", "B"} : RequestSource(t, n)

SpecRoots == InitRoots /\ [][NextRoots]_vars

\* a top-level text of plain lines around one include of B, and B plain
NestedText == Join(<<"a", IncludeLine("B"), "b">>)

NestedProviders ==
    {[k \in SourceTypes \X {"A", "B"} |->
        IF k[2] = "A" THEN Some(NestedText) ELSE Some(t)] : t \in PlainTexts}

\* the line scan over texts without directives, top-level and included
InitBody == Constructed(PlainProviders \cup NestedProviders, Versions)

SpecBody == InitBody /\ [][Next]_vars

(***************************************************************************)
(* Reading a call's record.                                                *)
(***************************************************************************)
Called == returned.call
Succeeded == returned.call /\ returned.value.has
Output == returned.value.val
Directives == returned.run.directives
ExpandedTexts == returned.run.expanded
Requests == returned.run.requests

IsBeginLine(l) == StartsWith(l, "// begin ")

\* the names of a sequence of directives, each kept at its first place only
RECURSIVE FirstOccurrences(_, _)
FirstOccurrences(ds, seen) ==
    IF Len(ds) = 0 THEN <<>>
    ELSE IF ds[1].name \in seen THEN FirstOccurrences(Tail(ds), seen)
    ELSE <<ds[1].name>> \o FirstOccurrences(Tail(ds), seen \cup {ds[1].name})

\* C1: in a successful call, an include directive is skipped exactly when an
\* earlier directive reached (in depth-first line order) named the same file;
\* no include name is expanded twice; and the first lines of the expanded
\* files appear in the output once each, in the order of the first
\* occurrences of their names, after the first line of the top-level text.
C1_IncludedOnceAtFirstOccurrence ==
    Succeeded =>
        /\ \A i \in 1..Len(Directives) :
              /\ Directives[i].outcome \in {"skipped", "included"}
              /\ Directives[i].outcome = "skipped"
                    <=> \E j \in 1..(i - 1) : Directives[j].name = Directives[i].name
        /\ \A i, j \in 1..Len(ExpandedTexts) :
              (i < j /\ ExpandedTexts[i].type = Include /\ ExpandedTexts[j].type = Include)
                 => ExpandedTexts[i].name # ExpandedTexts[j].name
        /\ SelectSeq(SplitLines(Output), IsBeginLine)
              = SelectSeq(SplitLines(getSource(Source, returned.name).val), IsBeginLine)
                \o [i \in 1..Len(FirstOccurrences(Directives, {})) |->
                       FirstLine(FirstOccurrences(Directives, {})[i])]

\* C1 witness: A includes B and C, B includes C; C is expanded inside B and
\* the directive in A that names C again is skipped
C1_Witness ==
    /\ Succeeded
    /\ Len(Directives) = 3
    /\ Directives[1].name = "B" /\ Directives[1].outcome = "included"
    /\ Directives[2].name = "C" /\ Directives[2].outcome = "included"
    /\ Directives[3].name = "C" /\ Directives[3].outcome = "skipped"
    /\ returned.name = "A"

\* the requests of a call that the provider answered with absence
AbsentRequests ==
    {i \in 1..Len(Requests) : ~getSource(Requests[i].type, Requests[i].name).has}

\* C2: a call in which the provider reported absence, for the top-level name
\* or for an include name at any depth, returns absence.
C2_AbsenceOnMissingSource ==
    (Called /\ AbsentRequests # {}) => ~returned.value.has

\* C2 witness: the include of an include is missing, after lines of both the
\* top-level text and the first include were appended
C2_Witness ==
    /\ Called /\ ~returned.value.has
    /\ Len(Requests) = 3
    /\ AbsentRequests = {3}
    /\ Len(ExpandedTexts) = 2
    /\ Directives[1].outcome = "included" /\ Directives[2].outcome = "included"

\* C3: within one call no name is expanded twice, the top-level name included.
C3_EachNameExpandedOnce ==
    Called =>
        \A i, j \in 1..Len(ExpandedTexts) :
            i < j => ExpandedTexts[i].name # ExpandedTexts[j].name

(***************************************************************************)
(* The texts the specification describes, written out independently.       *)
(***************************************************************************)
IsDirective(l) == StartsWith(l, "#include")
HasDirective(text) == Len(SelectSeq(SplitLines(text), IsDirective)) > 0

\* one `#define <name> <value>` line per entry, in the table's order
ExpectedDefines ==
    LET F[i \in 0..Len(definitionMap_)] ==
            IF i = 0 THEN ""
            ELSE F[i - 1] \o "#define " \o definitionMap_[i].name \o " "
                 \o definitionMap_[i].value \o "\n"
    IN F[Len(definitionMap_)]

\* the lines of a text without directives, each followed by a newline
ExpectedBody(text) == IF text = "" THEN "" ELSE text \o "\n"

TopLevelSource == getSource(Source, returned.name)

\* C4: for a top-level source without a line starting with #include the call
\* returns the version string and a newline, one #define line per table
\* entry, then the source's lines each ended by a newline.
C4_PlainSourceOutput ==
    (Called /\ TopLevelSource.has /\ ~HasDirective(TopLevelSource.val)) =>
        returned.value
            = Some(glslVersion_ \o "\n" \o ExpectedDefines
                   \o ExpectedBody(TopLevelSource.val))

\* C4 witness: the example of the specification
C4_Witness ==
    /\ Called
    /\ TopLevelSource = Some("void main(){}")
    /\ definitionMap_ = <<Entry("LIGHT_COUNT", "4")>>
    /\ returned.value
          = Some("#version 450 core\n#define LIGHT_COUNT 4\nvoid main(){}\n")

QuoteCount(line) == Cardinality({i \in 1..Len(line) : SubSeq(line, i, i) = "\""})

LoggedFor(line) ==
    \E k \in 1..Len(returned.run.log) : returned.run.log[k].arg = line

\* C5 as stated: a reached directive with fewer than two quotes makes the
\* call return absence, and the logging collaborator gets a message for it.
C5_MalformedAbsentAndLogged ==
    Called =>
        \A i \in 1..Len(Directives) :
            QuoteCount(Directives[i].line) < 2 =>
                ~returned.value.has /\ LoggedFor(Directives[i].line)

\* C5 as amended: the call returns absence; the message is handed over in
\* iteration 2, and in iteration 1 when PRINT_SYNTAX_ERRORS is set.
C5_MalformedAbsentLoggedIfEnabled ==
    Called =>
        \A i \in 1..Len(Directives) :
            QuoteCount(Directives[i].line) < 2 =>
                /\ ~returned.value.has
                /\ ((iteration = 2 \/ printSyntaxErrors)
                       => LoggedFor(Directives[i].line))

\* C5 witness: an included file holds a directive with an opening quote only;
\* the call is absent and the message was handed over
C5_Witness ==
    /\ Called /\ ~returned.value.has
    /\ Len(Directives) = 2
    /\ QuoteCount(Directives[2].line) = 1
    /\ LoggedFor(Directives[2].line)
    /\ iteration = 2

\* the text between the first quote of a line and the next one
BetweenFirstAndNextQuote(line) ==
    LET quotes == {i \in 1..Len(line) : SubSeq(line, i, i) = "\""}
        first == CHOOSE i \in quotes : \A j \in quotes : i <= j
        later == quotes \ {first}
        next == CHOOSE i \in later : \A j \in later : i <= j
    IN SubSeq(line, first + 1, next - 1)

\* C6: for a reached directive with two or more quotes, the name requested
\* of the provider is the text between the first quote and the next one.
C6_NameBetweenFirstAndNextQuote ==
    Called =>
        \A i \in 1..Len(Directives) :
            QuoteCount(Directives[i].line) >= 2 =>
                /\ Directives[i].name = BetweenFirstAndNextQuote(Directives[i].line)
                /\ (Directives[i].outcome = "included" =>
                      \E k \in 1..Len(Requests) :
                          Requests[k] = [type |-> Include,
                                         name |-> BetweenFirstAndNextQuote(Directives[i].line)])

\* C7: after a define the table holds one entry of that name, whose value is
\* the stringified value, or the empty string for the value-less define.
C7_LatestDefineWins ==
    lastTableOp.op \in {"define", "defineFlag"} =>
        LET hits == {i \in 1..Len(definitionMap_) :
                        definitionMap_[i].name = lastTableOp.name}
        IN /\ Cardinality(hits) = 1
           /\ \A i \in hits :
                 definitionMap_[i].value
                     = IF lastTableOp.op = "define"
                       THEN to_string(lastTableOp.value)
                       ELSE ""

IsVersionLine(l) == l = glslVersion_
IsDefineLine(l) == StartsWith(l, "#define ")

\* C8: a successful call's output begins with the version line and one
\* #define line per table entry, and holds no other version or #define line,
\* whatever was included.
C8_PreambleOnceAtTop ==
    Succeeded =>
        /\ StartsWith(Output, glslVersion_ \o "\n" \o ExpectedDefines)
        /\ Len(SelectSeq(SplitLines(Output), IsVersionLine)) = 1
        /\ Len(SelectSeq(SplitLines(Output), IsDefineLine)) = Len(definitionMap_)

\* C8 witness: a macro is defined and an include of an include was expanded
C8_Witness ==
    /\ Succeeded
    /\ Len(definitionMap_) = 1
    /\ Len(ExpandedTexts) = 3
    /\ Len(Directives) = 2
    /\ ExpandedTexts[3].type = Include

\* C9: a call on a source without directives, made when the last table
\* operation was undefAll(), returns what it returns on a processor whose
\* table was never touched: the version line and the source's lines.
C9_UndefAllLikeFresh ==
    (Called /\ lastTableOp.op \in {"none", "undefAll"}
        /\ ~HasDirective(TopLevelSource.val)) =>
        returned.value
            = IF TopLevelSource.has
              THEN Some(glslVersion_ \o "\n" \o ExpectedBody(TopLevelSource.val))
              ELSE None

\* C9 witness: undefAll() removed two entries and the call returned a text
C9_Witness ==
    /\ Succeeded
    /\ lastTableOp.op = "undefAll"
    /\ lastTableOp.removed = 2

\* C10: a step that returns from getShaderSource leaves the definition table
\* and the version string as they were.
C10_CallLeavesTableAndVersion ==
    [][returned'.call =>
          definitionMap_' = definitionMap_ /\ glslVersion_' = glslVersion_]_vars

\* C10 witness: a call that returned absence, made with two entries in the table
C10_Witness ==
    /\ Called /\ ~returned.value.has
    /\ Len(definitionMap_) = 2

(***************************************************************************)
(* C11: every call of getShaderSource starts from an empty set of included *)
(* names: a directive is skipped only after a directive of the same call   *)
(* included its name, so a name included by the call before (returned or   *)
(* aborted) is expanded again, and a call repeated for the same name with  *)
(* the provider and the definitions unchanged returns the same result.     *)
(***************************************************************************)
C11_IncludedSetFreshPerCall ==
    (kept.call /\ returned.call) =>
        /\ \A i \in 1..Len(Directives) :
              (Directives[i].outcome = "skipped") =>
                  \E j \in 1..(i - 1) :
                      /\ Directives[j].name = Directives[i].name
                      /\ Directives[j].outcome = "included"
        /\ (kept.name = returned.name) =>
              /\ returned.value = kept.value
              /\ returned.run = kept.run

\* a call aborted after including a name, then repeated: the name is
\* included and expanded again
C11_Witness ==
    /\ kept.call /\ returned.call /\ kept.name = returned.name
    /\ ~kept.value.has
    /\ kept.run.included # {}
    /\ \E i \in 1..Len(Directives) :
          /\ Directives[i].name \in kept.run.included
          /\ Directives[i].outcome = "included"
    /\ \E i \in 1..Len(ExpandedTexts) :
          ExpandedTexts[i].type = Include /\ ExpandedTexts[i].name \in kept.run.included

(***************************************************************************)
(* C17, as stated: when a directive reached during the call names the      *)
(* top-level file, and the provider holds the same text for that name      *)
(* under both kinds, the call never returns.                               *)
(***************************************************************************)
ReincludesTopLevel ==
    /\ returned.call
    /\ sourceProvider_[<<Source, returned.name>>] = sourceProvider_[<<Include, returned.name>>]
    /\ \E i \in 1..Len(Directives) : Directives[i].name = returned.name

C17_ReinclusionNeverReturns == ~ReincludesTopLevel

(***************************************************************************)
(* C17, amended: such a call returns.  The first directive naming the      *)
(* top-level file enters the name into the set and expands the text once   *)
(* more, as an include; every later directive naming it is skipped, so the *)
(* top-level text is expanded exactly twice and no text more than twice.   *)
(***************************************************************************)
C17_ReinclusionExpandsTwice ==
    ReincludesTopLevel =>
        LET again == {i \in 1..Len(Directives) : Directives[i].name = returned.name}
            first == CHOOSE i \in again : \A j \in again : i <= j
            runs == {i \in 1..Len(ExpandedTexts) : ExpandedTexts[i].name = returned.name}
        IN /\ Directives[first].outcome = "included"
           /\ \A i \in again \ {first} : Directives[i].outcome = "skipped"
           /\ Cardinality(runs) = 2
           /\ \E i \in runs : ExpandedTexts[i].type = Include
           /\ Len(ExpandedTexts) <= 1 + Cardinality(returned.run.included)

\* B includes A and A includes B: getShaderSource("A") returns a text
C17_Witness ==
    /\ ReincludesTopLevel /\ Succeeded
    /\ \E i \in 1..Len(Directives) :
          /\ Directives[i].name = returned.name
          /\ Directives[i].outcome = "included"
          /\ i > 1

(***************************************************************************)
(* C18: every call of getShaderSource ends, with a text or with absence,   *)
(* also over include graphs with cycles: a nested expansion is entered     *)
(* only for a name just inserted into the set, so the nested expansions of *)
(* one call have distinct names and are no more than the distinct names    *)
(* of the include directives reached.                                      *)
(***************************************************************************)
NestedExpansions == SelectSeq(ExpandedTexts, LAMBDA e : e.type = Include)

C18_NestedExpansionsBounded ==
    Called =>
        /\ \A i, j \in 1..Len(NestedExpansions) :
              i < j => NestedExpansions[i].name # NestedExpansions[j].name
        /\ \A i \in 1..Len(NestedExpansions) :
              NestedExpansions[i].name \in returned.run.included
        /\ Len(NestedExpansions) <= Cardinality(returned.run.included)
        /\ returned.run.included = {Directives[i].name : i \in
                {j \in 1..Len(Directives) : Directives[j].outcome # "malformed"}}

\* a cycle among included files: a directive is skipped inside a nested
\* expansion of a file that is itself reached from the file it names
C18_Witness ==
    /\ Succeeded
    /\ Len(NestedExpansions) >= 2
    /\ \E i \in 1..Len(Directives) :
          /\ Directives[i].outcome = "skipped"
          /\ Directives[i].name # returned.name
          /\ Directives[i].line = IncludeLine(Directives[i].name)
          /\ \E g \in DOMAIN sourceProvider_ :
                /\ g[1] = Include /\ g[2] # Directives[i].name
                /\ sourceProvider_[g].has
                /\ sourceProvider_[<<Include, Directives[i].name>>].has
                /\ sourceProvider_[g].val = FileText(g[2], <<Directives[i].name>>)
                /\ sourceProvider_[<<Include, Directives[i].name>>].val
                       = FileText(Directives[i].name, <<g[2]>>)

(***************************************************************************)
(* C19: a text returned by getShaderSource has no line that starts with    *)
(* #include (the version string and the definitions being free of newlines *)
(* and the version string not starting with #include): every directive     *)
(* reached was replaced by its expansion or dropped.                       *)
(***************************************************************************)
C19_NoDirectiveInOutput ==
    Succeeded =>
        \A i \in 1..Len(SplitLines(Output)) : ~IsDirective(SplitLines(Output)[i])

\* a returned text whose call included one directive and dropped another
C19_Witness ==
    /\ Succeeded
    /\ \E i \in 1..Len(Directives) : Directives[i].outcome = "included"
    /\ \E i \in 1..Len(Directives) : Directives[i].outcome = "skipped"
    /\ Len(NestedExpansions) >= 2

(***************************************************************************)
(* C20: for a text s without a line starting with #include the line scan   *)
(* produces nothing when s is empty and s followed by one newline          *)
(* otherwise, as the output after the preamble and as the nested expansion *)
(* of an included file alike; so a text ending in a newline gives one      *)
(* empty line more, and a nested expansion that is not empty ends in a     *)
(* newline.                                                                *)
(***************************************************************************)
IncludedPlainText == sourceProvider_[<<Include, "B">>].val

ExpectedPreamble == glslVersion_ \o "\n" \o ExpectedDefines

\* what the output holds between the lines "a" and "b" of NestedText
NestedBody ==
    Substr(Output, Len(ExpectedPreamble) + 2, Len(Output) - Len(ExpectedPreamble) - 4)

C20_LineScanBody ==
    Succeeded =>
        /\ (~HasDirective(TopLevelSource.val)) =>
              Output = ExpectedPreamble
                         \o (IF TopLevelSource.val = "" THEN ""
                             ELSE TopLevelSource.val \o "\n")
        /\ (TopLevelSource.val = NestedText) =>
              /\ Output = ExpectedPreamble \o "a\n" \o NestedBody \o "b\n"
              /\ NestedBody = (IF IncludedPlainText = "" THEN ""
                               ELSE IncludedPlainText \o "\n")
              /\ (NestedBody # "") => CharAt(NestedBody, Len(NestedBody) - 1) = "\n"

\* an included text that ends in a newline is followed by an empty line
C20_Witness ==
    /\ Succeeded
    /\ TopLevelSource.val = NestedText
    /\ IncludedPlainText = "x\n"
    /\ NestedBody = "x\n\n"

(***************************************************************************)
(* Requests of a file provider, as the claims speak of them.               *)
(***************************************************************************)
Smart == impl_ = "SmartCachedFileProvider"
CachedByName == impl_ = "CachedFileProvider"

\* the entries stored under a path with the last-write time and the size
\* the file at that path has now
EntriesOfFileNow(filepath) ==
    {e \in DOMAIN cache_ :
        /\ e.filepath = filepath
        /\ e.lastWrite = fs[filepath].lastWrite
        /\ e.fileSize = Len(fs[filepath].text)}

\* the raw reader's answer for the file as it is
RawReaderAbsent(filepath) == ~(fs[filepath].exists /\ fs[filepath].readable)

(***************************************************************************)
(* C12, as stated: a request of SmartCachedFileProvider for a file whose   *)
(* last-write time and size can be probed returns a stored text without    *)
(* reading exactly when an entry with the path and the file's last-write   *)
(* time and size is stored; when no such entry is stored the file is read  *)
(* and the text read is returned.                                          *)
(***************************************************************************)
C12_HitIffSameKeyElseReread ==
    [][(fetched'.call /\ Smart /\ fs[fetched'.filepath].exists) =>
        LET stored == EntriesOfFileNow(fetched'.filepath)
        IN /\ (stored # {}) <=> (~fetched'.read /\ fetched'.outcome = "text")
           /\ \A e \in stored : fetched'.text = cache_[e]
           /\ (stored = {}) =>
                 /\ fetched'.read
                 /\ fetched'.outcome = "text"
                 /\ fetched'.text = fs[fetched'.filepath].text]_vars

(***************************************************************************)
(* C12, amended: as above, but when no such entry is stored the file is    *)
(* read and the request returns what that read gives: the text read,       *)
(* which is then stored under the file's path, last-write time and size,   *)
(* or absence, with nothing stored, when the file cannot be opened.        *)
(***************************************************************************)
C12_HitIffSameKeyElseReadResult ==
    [][(fetched'.call /\ Smart /\ fs[fetched'.filepath].exists) =>
        LET stored == EntriesOfFileNow(fetched'.filepath)
            file == fs[fetched'.filepath]
        IN /\ (stored # {}) <=> (~fetched'.read /\ fetched'.outcome = "text")
           /\ \A e \in stored : fetched'.text = cache_[e]
           /\ (stored # {}) => cache_' = cache_
           /\ (stored = {} /\ file.readable) =>
                 /\ fetched'.read
                 /\ fetched'.outcome = "text"
                 /\ fetched'.text = file.text
                 /\ DOMAIN cache_' = DOMAIN cache_ \cup
                        {[filepath |-> fetched'.filepath, lastWrite |-> file.lastWrite,
                          fileSize |-> Len(file.text)]}
                 /\ \A e \in DOMAIN cache_' \ DOMAIN cache_ : cache_'[e] = file.text
                 /\ \A e \in DOMAIN cache_ : cache_'[e] = cache_[e]
           /\ (stored = {} /\ ~file.readable) =>
                 /\ fetched'.read
                 /\ fetched'.outcome = "absent"
                 /\ cache_' = cache_]_vars

\* the file was read again after its last-write time or size changed: two
\* entries are stored for its path
C12_Witness ==
    /\ Smart /\ fetched.call /\ fetched.read /\ fetched.outcome = "text"
    /\ Cardinality({e \in DOMAIN cache_ : e.filepath = fetched.filepath}) >= 2

(***************************************************************************)
(* C13: a request of CachedFileProvider for a key it holds returns the     *)
(* text held, without reading the file and whatever became of the file;    *)
(* entries are never changed or dropped, and one is added only by a        *)
(* request whose read succeeded, with the text read; a request whose read  *)
(* failed leaves the cache as it was, so the next request reads again.     *)
(***************************************************************************)
C13_FirstReadKept ==
    [][CachedByName =>
        /\ \A k \in DOMAIN cache_ : k \in DOMAIN cache_' /\ cache_'[k] = cache_[k]
        /\ fetched'.call =>
              LET key == fetched'.filepath
              IN /\ (key \in DOMAIN cache_) =>
                       /\ ~fetched'.read
                       /\ fetched'.outcome = "text"
                       /\ fetched'.text = cache_[key]
                       /\ cache_' = cache_
                 /\ (key \notin DOMAIN cache_) => fetched'.read
                 /\ (key \notin DOMAIN cache_ /\ ~RawReaderAbsent(key)) =>
                       /\ fetched'.outcome = "text"
                       /\ fetched'.text = fs[key].text
                       /\ DOMAIN cache_' = DOMAIN cache_ \cup {key}
                       /\ cache_'[key] = fs[key].text
                 /\ (key \notin DOMAIN cache_ /\ RawReaderAbsent(key)) =>
                       cache_' = cache_]_vars

\* the text of the first read is returned for a file that is gone or holds
\* another text by now
C13_Witness ==
    /\ CachedByName /\ fetched.call /\ ~fetched.read /\ fetched.outcome = "text"
    /\ fetched.filepath \in DOMAIN cache_
    /\ fetched.text = cache_[fetched.filepath]
    /\ (~fs[fetched.filepath].exists \/ fs[fetched.filepath].text # fetched.text)

(***************************************************************************)
(* C14: for every provider of both iterations, a request for a file the    *)
(* raw reader cannot give, with no entry cached for the request, returns   *)
(* absence: not a text and not a fault.                                    *)
(***************************************************************************)
CachedForRequest ==
    CASE CachedByName -> fetched.filepath \in DOMAIN cache_
      [] Smart -> fs[fetched.filepath].exists /\ EntriesOfFileNow(fetched.filepath) # {}
      [] OTHER -> FALSE

C14_AbsencePropagates ==
    (fetched.call /\ RawReaderAbsent(fetched.filepath) /\ ~CachedForRequest) =>
        fetched.outcome = "absent"

(***************************************************************************)
(* C15: a request of SmartCachedFileProvider for a file whose last-write   *)
(* time and size cannot be probed (the file is gone) returns absence, not  *)
(* a fault, without reading, and leaves the stored entries as they were,   *)
(* entries for that path among them.                                       *)
(***************************************************************************)
C15_FailedProbeIsAbsence ==
    [][(fetched'.call /\ Smart /\ ~fs[fetched'.filepath].exists) =>
        /\ fetched'.outcome = "absent"
        /\ ~fetched'.read
        /\ cache_' = cache_]_vars

\* the file was read and stored, then deleted, then requested again
C15_Witness ==
    /\ Smart /\ fetched.call /\ fetched.outcome = "absent"
    /\ ~fs[fetched.filepath].exists
    /\ \E e \in DOMAIN cache_ : e.filepath = fetched.filepath

(***************************************************************************)
(* C16: a call of getShaderSource asks for its top-level text with kind    *)
(* Source and for every include with kind Include, and a provider with     *)
(* split roots reads glsl/include/name for Include and glsl/src/name for   *)
(* Source: a request returns the text of the file at that path, and the    *)
(* texts a call expands are those of the files at these paths, so one name *)
(* under the two kinds gives the texts of two files.                       *)
(***************************************************************************)
PathOfKind(type, name) ==
    IF type = "Include" THEN "glsl/include/" \o name ELSE "glsl/src/" \o name

\* the lines of the output that name the file they came from
PathLines == SelectSeq(SplitLines(Output), LAMBDA l : StartsWith(l, "// glsl/"))

C16_KindChoosesRoot ==
    /\ Called =>
          /\ Requests[1].type = "Source"
          /\ \A i \in 2..Len(Requests) : Requests[i].type = "Include"
          /\ \A i \in 1..Len(ExpandedTexts) :
                fs[PathOfKind(ExpandedTexts[i].type, ExpandedTexts[i].name)].exists
    /\ Succeeded =>
          PathLines = [i \in 1..Len(ExpandedTexts) |->
                          "// " \o PathOfKind(ExpandedTexts[i].type, ExpandedTexts[i].name)]
    /\ fetched.call =>
          /\ fetched.filepath = PathOfKind(fetched.type, fetched.name)
          /\ (fetched.outcome = "text") <=> fs[fetched.filepath].exists
          /\ (fetched.outcome = "text") => fetched.text = fs[fetched.filepath].text
          /\ fetched.outcome \in {"text", "absent"}

\* getShaderSource("A") where glsl/src/A includes A: the output holds the
\* text of glsl/src/A and in it the text of glsl/include/A
C16_Witness ==
    /\ Succeeded /\ returned.name = "A"
    /\ Len(PathLines) >= 2
    /\ PathLines[1] = "// glsl/src/A"
    /\ PathLines[2] = "// glsl/include/A"
    /\ fs["glsl/src/A"].text # fs["glsl/include/A"].text

====
